---- MODULE Spec2Model ----
(***************************************************************************)
(* Model of diffusion.py: a score-based diffusion model (Mixer2d network,  *)
(* stratified-time training objective, optimisation step, training loop    *)
(* and reverse-time ODE sampler).                                          *)
(*                                                                         *)
(* Abstractions.  Tensors are represented by their shapes.  Times are      *)
(* integers counted in ticks, with t1 a multiple of batch_size so that     *)
(* t1 / batch_size is exact; arithmetic on times is exact (no rounding).   *)
(* A PRNG key is the path of splits that derived it from PRNGKey(1736).    *)
(* Network parameters and optimiser state are the list of updates applied. *)
(***************************************************************************)
EXTENDS Integers, Sequences, FiniteSets, Bags

\* ---------------------------------------------------------------- bounds
MaxChannels == 2
MaxDim      == 4
MaxPatch    == 3
MaxHidden   == 2
MaxBlocks   == 2
MaxBatch    == 4
MaxStratum  == 5
MaxSteps    == 5
MaxPrint    == 3
MaxLoss     == 1
MaxT1       == 6
MaxDt       == 4
MaxSample   == 2

VARIABLES
  hp,            \* hyperparameters and the jax_threefry_partitionable flag
  pc,            \* position in the __main__ script
  model_key, train_key, sample_key,
  loader_key,    \* handed to the dataloader of utils; its use there is not modelled
  consumed,      \* bag of keys passed to split / uniform / normal / init
  model,         \* the Mixer2d: layer configuration and parameter updates
  opt_state,
  step,          \* number of loop iterations completed
  total_value, total_size, losses,
  logs,          \* lines printed by the training loop
  calls,         \* one record per make_step call: arguments and results
  offsets, t,    \* batch_loss_fn: t after line 90, t after line 91
  fwd,           \* shapes seen by the last Mixer2d.__call__
  ts, nsolve, tpath,   \* diffeqsolve: current time, steps taken, times visited
  sample         \* result of the vmapped single_sample_fn

vars == <<hp, pc, model_key, train_key, loader_key, sample_key, consumed,
          model, opt_state, step, total_value, total_size, losses, logs,
          calls, offsets, t, fwd, ts, nsolve, tpath, sample>>

\* ------------------------------------------------------------- utilities
Range(s) == {s[i] : i \in DOMAIN s}

\* a 0-indexed array (function on 0..n-1) as a 1-indexed sequence
ToSeq(f, n) == [i \in 1..n |-> f[i - 1]]

BagOfSeq(s) == [k \in Range(s) |-> Cardinality({i \in DOMAIN s : s[i] = k})]

RECURSIVE SumSeq(_)
SumSeq(s) == IF s = <<>> THEN 0 ELSE s[1] + SumSeq(Tail(s))

Max(a, b) == IF a >= b THEN a ELSE b

\* ------------------------------------------------------------------ keys
PRNGKey == <<>>

\* jax.random.split(key, num)[i].  With jax_threefry_partitionable the i-th
\* child is threefry(key, (0, i)) whatever num is; otherwise the counters
\* are laid out over 2*num words, so the child depends on num as well.
Split(key, num) ==
  [i \in 0..(num - 1) |->
     Append(key, IF hp.threefry_partitionable THEN <<0, i>> ELSE <<num, i>>)]

\* --------------------------------------------------------------- shapes
Err == <<>>

Conv2d(layer, x) ==
  IF /\ Len(x) = 3
     /\ x[1] = layer.in_channels
     /\ x[2] >= layer.kernel_size
     /\ x[3] >= layer.kernel_size
  THEN <<layer.out_channels,
         ((x[2] - layer.kernel_size) \div layer.stride) + 1,
         ((x[3] - layer.kernel_size) \div layer.stride) + 1>>
  ELSE Err

\* the output keeps the channel count of its input
ConvTranspose2dKeepsChannels(layer, x) ==
  IF Len(x) = 3 /\ x[1] = layer.in_channels
  THEN <<x[1],
         (x[2] - 1) * layer.stride + layer.kernel_size,
         (x[3] - 1) * layer.stride + layer.kernel_size>>
  ELSE Err

ConvTranspose2d(layer, x) ==
  IF Len(x) = 3 /\ x[1] = layer.in_channels
  THEN <<layer.out_channels,
         (x[2] - 1) * layer.stride + layer.kernel_size,
         (x[3] - 1) * layer.stride + layer.kernel_size>>
  ELSE Err

LayerNorm(shape, x) == IF x = shape THEN x ELSE Err

\* jax.vmap(mlp)(x): the MLP maps each row of length in_size to out_size
VmapMLP(mlp, x) ==
  IF Len(x) = 2 /\ x[2] = mlp.in_size THEN <<x[1], mlp.out_size>> ELSE Err

\* y + z for the equal shapes that occur here
Residual(y, z) == IF y # Err /\ y = z THEN y ELSE Err

Transpose(x) == IF Len(x) = 2 THEN <<x[2], x[1]>> ELSE Err

\* mix_patch_size and mix_hidden_size are the widths of the hidden layers
\* of the two MLPs; they do not show in any shape outside the MLPs
MixerBlock(num_patches, hidden_size, key) ==
  [patch_mixer  |-> [in_size |-> num_patches, out_size |-> num_patches,
                     key |-> Split(key, 2)[0]],
   hidden_mixer |-> [in_size |-> hidden_size, out_size |-> hidden_size,
                     key |-> Split(key, 2)[1]],
   norm1 |-> <<hidden_size, num_patches>>,
   norm2 |-> <<num_patches, hidden_size>>]

MixerBlockCall(block, y) ==
  LET y1 == Residual(y, VmapMLP(block.patch_mixer, LayerNorm(block.norm1, y)))
      y2 == Transpose(y1)
      y3 == Residual(y2, VmapMLP(block.hidden_mixer, LayerNorm(block.norm2, y2)))
  IN Transpose(y3)

\* the width assertion left out
HeightOnlyDivides(height, width, patch_size) ==
  (height % patch_size) = 0

PatchSizeDivides(height, width, patch_size) ==
  /\ (height % patch_size) = 0
  /\ (width % patch_size) = 0

NumPatches(height, width, patch_size) ==
  (height \div patch_size) * (width \div patch_size)

Mixer2d(img_size, patch_size, hidden_size, num_blocks, t1, key) ==
  LET input_size  == img_size[1]
      height      == img_size[2]
      width       == img_size[3]
      num_patches == NumPatches(height, width, patch_size)
      ks          == Split(key, 2 + num_blocks)
  IN [conv_in  |-> [in_channels |-> input_size + 1, out_channels |-> hidden_size,
                    kernel_size |-> patch_size, stride |-> patch_size,
                    key |-> ks[0]],
      conv_out |-> [in_channels |-> hidden_size, out_channels |-> input_size,
                    kernel_size |-> patch_size, stride |-> patch_size,
                    key |-> ks[1]],
      blocks   |-> [b \in 1..num_blocks |->
                      MixerBlock(num_patches, hidden_size, ks[b + 1])],
      norm     |-> <<hidden_size, num_patches>>,
      t1       |-> t1,
      updates  |-> <<>>]

\* keys passed to split or to a parameter initialiser while constructing
Mixer2dConsumes(key, num_blocks) ==
  LET ks == Split(key, 2 + num_blocks)
  IN <<key, ks[0], ks[1]>> \o
     [j \in 1..(3 * num_blocks) |->
        LET bkey == ks[((j - 1) \div 3) + 2]
        IN CASE (j - 1) % 3 = 0 -> bkey
             [] (j - 1) % 3 = 1 -> Split(bkey, 2)[0]
             [] OTHER           -> Split(bkey, 2)[1]]

RECURSIVE ApplyBlocks(_, _)
\* shapes after each block of the stack, in order
ApplyBlocks(blocks, y) ==
  IF blocks = <<>> THEN <<>>
  ELSE LET y1 == MixerBlockCall(Head(blocks), y)
       IN <<y1>> \o ApplyBlocks(Tail(blocks), y1)

Mixer2dCall(mdl, y) ==
  LET height == y[2]
      width  == y[3]
      tchan  == <<1, height, width>>
      cat    == <<y[1] + tchan[1], height, width>>
      emb    == Conv2d(mdl.conv_in, cat)
      flat   == IF emb = Err THEN Err ELSE <<emb[1], emb[2] * emb[3]>>
      mids   == ApplyBlocks(mdl.blocks, flat)
      last   == IF mids = <<>> THEN flat ELSE mids[Len(mids)]
      normed == LayerNorm(mdl.norm, last)
      grid   == IF normed = Err \/ emb = Err \/ normed[2] # emb[2] * emb[3]
                THEN Err ELSE <<normed[1], emb[2], emb[3]>>
  IN [input |-> y, cat |-> cat, emb |-> emb, flat |-> flat, blocks |-> mids,
      out |-> ConvTranspose2d(mdl.conv_out, grid)]

NoCall == [input |-> Err, cat |-> Err, emb |-> Err, flat |-> Err,
           blocks |-> <<>>, out |-> Err]

\* ------------------------------------------------------------- training
\* maxval included in the range
UniformClosed(n, minval, maxval) == [0..(n - 1) -> minval..maxval]

\* jax.random.uniform(key, (n,), minval, maxval): n independent values of
\* [minval, maxval), here on the tick grid
Uniform(n, minval, maxval) == [0..(n - 1) -> minval..(maxval - 1)]

\* the strata counted from 1
StratifiedTimesFromOne(u, t1, batch_size) ==
  [i \in 0..(batch_size - 1) |-> u[i] + (t1 \div batch_size) * (i + 1)]

\* line 91: t + (t1 / batch_size) * jnp.arange(batch_size)
StratifiedTimes(u, t1, batch_size) ==
  [i \in 0..(batch_size - 1) |-> u[i] + (t1 \div batch_size) * i]

\* the mini-batch the loader yields at a given pull: batch_size images
Batch(index) ==
  [index |-> index, shape |-> <<hp.batch_size>> \o hp.img_size]

\* batch_loss_fn with the outcome u of its uniform draw.  The loss itself is
\* a float computed from (model, data, t, noise); the record keeps what it
\* is computed from.
batch_loss_fn(mdl, data, t1, key, u) ==
  LET batch_size == data.shape[1]
      ks         == Split(key, 2)
      tkey       == ks[0]
      losskey    == Split(ks[1], batch_size)
  IN [tkey     |-> tkey,
      losskey  |-> ToSeq(losskey, batch_size),
      offsets  |-> ToSeq(u, batch_size),
      t        |-> ToSeq(StratifiedTimes(u, t1, batch_size), batch_size),
      pred     |-> Mixer2dCall(mdl, Tail(data.shape)),
      consumes |-> <<key, ks[1], tkey>> \o ToSeq(losskey, batch_size)]

\* the key handed back unchanged
NextKeySame(key) == key

\* line 117: the key make_step hands back
NextKey(key) == Split(key, 1)[0]

make_step(mdl, data, t1, key, opt, u) ==
  LET l == batch_loss_fn(mdl, data, t1, key, u)
      g == [data |-> data.index, key |-> key]
  IN [loss      |-> l,
      model     |-> [mdl EXCEPT !.updates = Append(@, g)],
      key       |-> NextKey(key),
      opt_state |-> Append(opt, g),
      consumes  |-> l.consumes \o <<key>>]

\* logging at the end of each window instead of its start
ShouldLogAtWindowEnd(i, print_every, num_steps) ==
  (i % print_every) = print_every - 1 \/ i = num_steps - 1

\* line 182
ShouldLog(i, print_every, num_steps) ==
  (i % print_every) = 0 \/ i = num_steps - 1

\* one iteration too many
LoopContinuesInclusive(i, num_steps) == i <= num_steps

\* line 173: range(num_steps) still has an index to yield
LoopContinues(i, num_steps) == i < num_steps

LossValues == 0..MaxLoss

\* -------------------------------------------------------------- sampling
\* the last step not clipped to the end time
NextTimeUnclipped(tprev, dt0) == tprev - dt0

\* diffeqsolve(term, solver, t1, 0, -dt0, y1) with the default constant step
\* size: one step of magnitude dt0, clipped so as not to pass the end time
NextTime(tprev, dt0) == Max(tprev - dt0, 0)

\* ------------------------------------------------------------------ Init
NoModel == [conv_in  |-> [in_channels |-> 0, out_channels |-> 0,
                          kernel_size |-> 0, stride |-> 0, key |-> <<>>],
            conv_out |-> [in_channels |-> 0, out_channels |-> 0,
                          kernel_size |-> 0, stride |-> 0, key |-> <<>>],
            blocks |-> <<>>, norm |-> <<>>, t1 |-> 0, updates |-> <<>>]

NoSample == [t |-> -1, nsteps |-> 0, shape |-> <<>>]

InitState ==
  /\ pc = "start"
  /\ model_key = <<>> /\ train_key = <<>>
  /\ loader_key = <<>> /\ sample_key = <<>>
  /\ consumed = EmptyBag
  /\ model = NoModel
  /\ opt_state = <<>>
  /\ step = 0 /\ total_value = 0 /\ total_size = 0
  /\ losses = <<>> /\ logs = <<>> /\ calls = <<>>
  /\ offsets = <<>> /\ t = <<>>
  /\ fwd = NoCall
  /\ ts = 0 /\ nsolve = 0 /\ tpath = <<>>
  /\ sample = NoSample

HyperParams(imgs, ps, hs, nbs, bs, strata, ns, pes, dts, szs, flags) ==
  {h \in [img_size : imgs, patch_size : ps, hidden_size : hs,
          num_blocks : nbs, t1 : 1..(MaxBatch + 1) * (MaxStratum + 1),
          batch_size : bs, num_steps : ns, print_every : pes,
          dt0 : dts, sample_size : szs,
          threefry_partitionable : flags] :
     \E s \in strata : h.t1 = h.batch_size * s}

\* one image size the patch size divides and one it does not
TwoImages == {<<1, 2, 2>>, <<1, 2, 3>>}

\* ------------------------------------------------------------- actions
\* lines 144-145
SplitRoot ==
  /\ pc = "start"
  /\ LET ks == Split(PRNGKey, 4)
     IN /\ model_key' = ks[0]
        /\ train_key' = ks[1]
        /\ loader_key' = ks[2]
        /\ sample_key' = ks[3]
  /\ consumed' = consumed (+) BagOfSeq(<<PRNGKey>>)
  /\ pc' = "construct"
  /\ UNCHANGED <<hp, model, opt_state, step, total_value, total_size, losses,
                 logs, calls, offsets, t, fwd, ts, nsolve, tpath, sample>>

\* lines 157-165, the assertions of lines 46-47 holding
Construct ==
  /\ pc = "construct"
  /\ PatchSizeDivides(hp.img_size[2], hp.img_size[3], hp.patch_size)
  /\ model' = Mixer2d(hp.img_size, hp.patch_size, hp.hidden_size,
                      hp.num_blocks, hp.t1, model_key)
  /\ consumed' = consumed (+) BagOfSeq(Mixer2dConsumes(model_key, hp.num_blocks))
  /\ opt_state' = <<>>
  /\ total_value' = 0 /\ total_size' = 0 /\ losses' = <<>>
  /\ pc' = "train"
  /\ UNCHANGED <<hp, model_key, train_key, loader_key, sample_key, step, logs,
                 calls, offsets, t, fwd, ts, nsolve, tpath, sample>>

\* lines 46-47: AssertionError, nothing after it runs
ConstructFails ==
  /\ pc = "construct"
  /\ ~PatchSizeDivides(hp.img_size[2], hp.img_size[3], hp.patch_size)
  /\ pc' = "failed"
  /\ UNCHANGED <<hp, model_key, train_key, loader_key, sample_key, consumed,
                 model, opt_state, step, total_value, total_size, losses, logs,
                 calls, offsets, t, fwd, ts, nsolve, tpath, sample>>

\* lines 173-185: one iteration of the loop, make_step included
TrainStep ==
  /\ pc = "train"
  /\ LoopContinues(step, hp.num_steps)
  /\ \E u \in Uniform(hp.batch_size, 0, hp.t1 \div hp.batch_size),
        value \in LossValues :
       LET data == Batch(step)
           r    == make_step(model, data, hp.t1, train_key, opt_state, u)
           tv   == total_value + value
           tsz  == total_size + 1
           loss == [num |-> tv, den |-> tsz]
           log  == ShouldLog(step, hp.print_every, hp.num_steps)
       IN /\ calls' = Append(calls,
                 [step |-> step, data |-> data.index, value |-> value,
                  model_in |-> model, key_in |-> train_key,
                  opt_in |-> opt_state,
                  tkey |-> r.loss.tkey, losskey |-> r.loss.losskey,
                  model_out |-> r.model, key_out |-> r.key,
                  opt_out |-> r.opt_state])
          /\ model' = r.model
          /\ train_key' = r.key
          /\ opt_state' = r.opt_state
          /\ consumed' = consumed (+) BagOfSeq(r.consumes)
          /\ offsets' = r.loss.offsets
          /\ t' = r.loss.t
          /\ fwd' = r.loss.pred
          /\ losses' = Append(losses, loss)
          /\ logs' = IF log THEN Append(logs, [step |-> step, loss |-> loss])
                     ELSE logs
          /\ total_value' = IF log THEN 0 ELSE tv
          /\ total_size' = IF log THEN 0 ELSE tsz
  /\ step' = step + 1
  /\ UNCHANGED <<hp, pc, model_key, loader_key, sample_key, ts, nsolve, tpath,
                 sample>>

\* line 173: range(num_steps) is exhausted
TrainDone ==
  /\ pc = "train"
  /\ ~LoopContinues(step, hp.num_steps)
  /\ pc' = "sample"
  /\ UNCHANGED <<hp, model_key, train_key, loader_key, sample_key, consumed,
                 model, opt_state, step, total_value, total_size, losses, logs,
                 calls, offsets, t, fwd, ts, nsolve, tpath, sample>>

\* lines 201-203 and 103-106: the keys of the vmapped single_sample_fn are
\* split from sample_key and each draws its y1
SampleStart ==
  /\ pc = "sample"
  /\ LET n  == hp.sample_size * hp.sample_size
         ks == Split(sample_key, n)
     IN consumed' = consumed (+) BagOfSeq(<<sample_key>> \o ToSeq(ks, n))
  /\ ts' = hp.t1
  /\ nsolve' = 0
  /\ tpath' = <<hp.t1>>
  /\ pc' = "solve"
  /\ UNCHANGED <<hp, model_key, train_key, loader_key, sample_key, model,
                 opt_state, step, total_value, total_size, losses, logs, calls,
                 offsets, t, fwd, sample>>

\* line 108: one solver step, the drift evaluating the model on y
SolverStep ==
  /\ pc = "solve"
  /\ ts > 0
  /\ ts' = NextTime(ts, hp.dt0)
  /\ nsolve' = nsolve + 1
  /\ tpath' = Append(tpath, ts')
  /\ fwd' = Mixer2dCall(model, hp.img_size)
  /\ UNCHANGED <<hp, pc, model_key, train_key, loader_key, sample_key,
                 consumed, model, opt_state, step, total_value, total_size,
                 losses, logs, calls, offsets, t, sample>>

\* lines 108-109: the end time is reached, sol.ys[0] is the state there
SampleDone ==
  /\ pc = "solve"
  /\ ts <= 0
  /\ sample' = [t |-> ts, nsteps |-> nsolve,
                shape |-> <<hp.sample_size * hp.sample_size>> \o hp.img_size]
  /\ pc' = "done"
  /\ UNCHANGED <<hp, model_key, train_key, loader_key, sample_key, consumed,
                 model, opt_state, step, total_value, total_size, losses, logs,
                 calls, offsets, t, fwd, ts, nsolve, tpath>>

Next ==
  \/ SplitRoot
  \/ Construct
  \/ ConstructFails
  \/ TrainStep
  \/ TrainDone
  \/ SampleStart
  \/ SolverStep
  \/ SampleDone

\* ------------------------------------------------------- specifications
\* the training loop and the key discipline
Init ==
  /\ hp \in HyperParams(TwoImages, {2}, {1}, {1}, 1..2, {1}, 0..MaxSteps,
                        1..MaxPrint, {1}, 1..MaxSample, BOOLEAN)
  /\ InitState

Spec == Init /\ [][Next]_vars

\* the network: image sizes, patch sizes, widths and depths
InitMixer ==
  /\ hp \in HyperParams((1..MaxChannels) \X (1..MaxDim) \X (1..MaxDim),
                        1..MaxPatch, 1..MaxHidden, 0..MaxBlocks, {1}, {1},
                        {1}, {1}, {1}, {1}, {FALSE})
  /\ InitState

SpecMixer == InitMixer /\ [][Next]_vars

\* the time sampling of one batch
InitBatch ==
  /\ hp \in HyperParams(TwoImages, {2}, {1}, {1}, 1..MaxBatch, 1..MaxStratum,
                        {1}, {1}, {MaxBatch * MaxStratum}, {1}, {FALSE})
  /\ InitState

SpecBatch == InitBatch /\ [][Next]_vars

\* the sampler: horizons and step sizes
InitSample ==
  /\ hp \in HyperParams(TwoImages, {2}, {1}, {1}, {1}, 1..MaxT1, {1}, {1},
                        1..MaxDt, 1..MaxSample, {FALSE})
  /\ InitState

SpecSample == InitSample /\ [][Next]_vars

\* ================================================================ claims
IsMultiple(x, d) == \E m \in 0..x : m * d = x

Width == hp.t1 \div hp.batch_size

C2_NoKeyConsumedTwice ==
  \A k \in BagToSet(consumed) : CopiesIn(k, consumed) <= 1

DrawKeys(n) == {calls[n].tkey} \cup Range(calls[n].losskey)

\* C3: the loop replaces its key by the one make_step returns; the keys
\* passed to make_step in two distinct iterations differ, and so do the keys
\* the two iterations draw with (time-offset key, per-element noise keys).
C3_FreshKeysEachIteration ==
  /\ \A n \in 1..Len(calls) :
       IF n < Len(calls) THEN calls[n + 1].key_in = calls[n].key_out
                         ELSE train_key = calls[n].key_out
  /\ \A i, j \in 1..Len(calls) :
       i # j => /\ calls[i].key_in # calls[j].key_in
                /\ DrawKeys(i) \cap DrawKeys(j) = {}

C3_Witness ==
  /\ Len(calls) = 3
  /\ hp.batch_size = 2
  /\ hp.threefry_partitionable
  /\ Cardinality(UNION {DrawKeys(n) : n \in 1..3}) = 9

\* C4: construction fails, before any parameter is created, exactly when the
\* height or the width is not a multiple of patch_size; otherwise it succeeds
\* with num_patches = (H/patch_size) * (W/patch_size).
C4_ConstructionChecksDivisibility ==
  LET H == hp.img_size[2]
      W == hp.img_size[3]
      p == hp.patch_size
  IN pc \notin {"start", "construct"} =>
       /\ pc = "failed" <=> ~(IsMultiple(H, p) /\ IsMultiple(W, p))
       /\ pc = "failed" =>
            /\ model = NoModel
            /\ ~BagIn(model_key, consumed)
       /\ pc # "failed" =>
            /\ Len(model.norm) = 2
            /\ model.norm[2] * p * p = H * W
            /\ \A b \in 1..Len(model.blocks) :
                 model.blocks[b].norm1 = model.norm

C4_Witness ==
  /\ pc = "failed"
  /\ hp.img_size = <<1, 4, 3>>
  /\ hp.patch_size = 2

\* C5: on an input of shape img_size the forward pass returns shape
\* (C, H, W): C+1 channels after the time channel, a (hidden_size,
\* H/patch_size, W/patch_size) grid after the convolution, (hidden_size,
\* num_patches) after every block, C x H x W after the transposed convolution.
C5_ForwardKeepsShape ==
  LET C == hp.img_size[1]
      H == hp.img_size[2]
      W == hp.img_size[3]
      p == hp.patch_size
  IN fwd # NoCall =>
       /\ fwd.input = hp.img_size
       /\ fwd.cat = <<C + 1, H, W>>
       /\ Len(fwd.emb) = 3
       /\ fwd.emb[1] = hp.hidden_size
       /\ fwd.emb[2] * p = H /\ fwd.emb[3] * p = W
       /\ Len(fwd.blocks) = hp.num_blocks
       /\ \A b \in 1..Len(fwd.blocks) :
            fwd.blocks[b] = <<hp.hidden_size, fwd.emb[2] * fwd.emb[3]>>
       /\ fwd.out = <<C, H, W>>

C5_Witness ==
  /\ hp.img_size = <<2, 4, 2>>
  /\ hp.patch_size = 2
  /\ hp.num_blocks = 2
  /\ fwd.emb = <<hp.hidden_size, 2, 1>>
  /\ fwd.out = <<2, 4, 2>>

After(n) == [model |-> calls[n].model_out, key |-> calls[n].key_out,
             opt_state |-> calls[n].opt_out]

Before(n) == [model |-> calls[n].model_in, key |-> calls[n].key_in,
              opt_state |-> calls[n].opt_in]

\* C8: the loop makes exactly num_steps calls to make_step and then ends,
\* whatever the losses; the loss list then has num_steps entries; each
\* iteration receives the parameters, key and optimiser state the previous
\* one returned.
C8_LoopRunsNumSteps ==
  /\ Len(calls) <= hp.num_steps
  /\ Len(calls) = step /\ Len(losses) = step
  /\ pc \in {"sample", "solve", "done"} =>
       Len(calls) = hp.num_steps /\ Len(losses) = hp.num_steps
  /\ \A n \in 1..(Len(calls) - 1) : Before(n + 1) = After(n)
  /\ \A n \in 1..Len(calls) : calls[n].step = n - 1

C8_Witness ==
  /\ pc = "sample"
  /\ hp.num_steps = 3
  /\ Len(calls) = 3
  /\ <<calls[1].value, calls[2].value, calls[3].value>> = <<1, 0, 1>>

LoggedSteps == {logs[i].step : i \in 1..Len(logs)}

\* the step of the last reset before step n, or -1
PrevReset(n) ==
  LET before == {s \in LoggedSteps : s < n}
  IN IF before = {} THEN -1
     ELSE CHOOSE s \in before : \A r \in before : r <= s

ValuesSince(r, n) == [k \in 1..(n - r) |-> calls[r + k + 1].value]

\* C9: a line is logged and the accumulator reset at every step whose index
\* is a multiple of print_every; consecutive logs are at most print_every
\* steps apart; the value logged and appended at a step is the mean of the
\* per-step losses since the previous reset; the count is at least 1 at
\* every division.
C9_PeriodicLogAndRunningMean ==
  /\ \A n \in 0..(step - 1) :
       IsMultiple(n, hp.print_every) => n \in LoggedSteps
  /\ \A i \in 1..(Len(logs) - 1) :
       /\ logs[i].step < logs[i + 1].step
       /\ logs[i + 1].step - logs[i].step <= hp.print_every
  /\ \A n \in 0..(step - 1) :
       /\ losses[n + 1].den = n - PrevReset(n)
       /\ losses[n + 1].num = SumSeq(ValuesSince(PrevReset(n), n))
       /\ losses[n + 1].den >= 1
  /\ \A i \in 1..Len(logs) : logs[i].loss = losses[logs[i].step + 1]
  /\ pc = "train" =>
       /\ total_size = (step - 1) - PrevReset(step)
       /\ total_value = SumSeq(ValuesSince(PrevReset(step), step - 1))
       /\ (step - 1) \in LoggedSteps => total_value = 0 /\ total_size = 0

C9_Witness ==
  /\ hp.print_every = 3 /\ hp.num_steps = 5
  /\ step = 5
  /\ LoggedSteps = {0, 3, 4}
  /\ losses[4] = [num |-> 2, den |-> 3]
  /\ total_size = 0

SampleKeys == Range(Split(sample_key, hp.sample_size * hp.sample_size))

C10_TimesDescendToZero ==
  pc \in {"solve", "done"} =>
    /\ tpath[1] = hp.t1
    /\ tpath[Len(tpath)] = ts
    /\ Len(tpath) = nsolve + 1
    /\ \A i \in 1..(Len(tpath) - 1) :
         /\ tpath[i + 1] < tpath[i]
         /\ tpath[i + 1] >= 0
         /\ \/ tpath[i] - tpath[i + 1] = hp.dt0
            \/ tpath[i + 1] = 0 /\ tpath[i] < hp.dt0
    /\ nsolve >= 1 => (nsolve - 1) * hp.dt0 < hp.t1
    /\ \A k \in SampleKeys : CopiesIn(k, consumed) = 1
    /\ pc = "done" =>
         /\ sample.t = 0 /\ ts = 0
         /\ sample.nsteps = nsolve
         /\ nsolve * hp.dt0 >= hp.t1

====
